---------------------------- MODULE Spec2Model ----------------------------
(***************************************************************************)
(* Model of lega_tester/inbox_ops.py: the connection probe                 *)
(* (open_ssh_connection under tenacity's retry decorator), the SFTP and S3 *)
(* transfer functions, and the artifact naming of encrypt_file.            *)
(***************************************************************************)
EXTENDS Integers, Sequences, FiniteSets, TLC

VARIABLES
    \* ---- open_ssh_connection (lines 18-38) ----
    ppc,            \* position of the decorated call
    now,            \* wall clock, in seconds
    start_time,     \* tenacity's retry_state.start_time
    hostname,       \* the hostname argument
    client,         \* the SSHClient of the current attempt
    openConns,      \* connections opened by the call and not yet closed
    outcome,        \* exception that left the body in the last attempt
    raised,         \* exception delivered to the caller of the decorated call
    \* ---- sftp_upload, sftp_remove, s3_upload, s3_remove (lines 41-130) ----
    tpc,            \* position of the current transfer call
    op,             \* the function called
    file_path,      \* its file_path argument
    transport,      \* the local variable transport: unbound, open or closed
    pending,        \* exception in flight inside the call
    orig,           \* first failure of the call
    result,         \* how the call ended: "ok" or the exception raised
    remoteLog,      \* remote operations the call has issued, in order
    passLog,        \* '| PASS |' upload records the call has logged
    sftpFiles,      \* names present in the SFTP inbox
    s3Objects,      \* keys present in the bucket
    localFiles,     \* local paths that are files
    chain,          \* progress of an upload, remove, remove sequence
    \* ---- encrypt_file and the names derived from a path (lines 133-153) ----
    npc,            \* position of the naming scenario
    srcPath,        \* file_path given to encrypt_file
    outWritten,     \* path encrypt_file opened for writing
    outReturned,    \* path encrypt_file returned
    nameFromSrc,    \* remote name when a transfer function is given srcPath
    nameFromOut,    \* remote name when it is given the returned path
    usedBy          \* transfer function that derived the names

pvars == <<ppc, now, start_time, hostname, client, openConns, outcome, raised>>

tvars == <<tpc, op, file_path, transport, pending, orig, result, remoteLog,
           passLog, sftpFiles, s3Objects, localFiles, chain>>

nvars == <<npc, srcPath, outWritten, outReturned, nameFromSrc, nameFromOut,
           usedBy>>

vars == <<pvars, tvars, nvars>>

(***************************************************************************)
(* Bounds and program constants                                            *)
(***************************************************************************)
MaxAttemptTime == 1         \* an attempt takes 0..MaxAttemptTime seconds

WaitFixed == 2              \* wait=wait_fixed(2)
StopAfterDelay == 14400     \* stop=stop_after_delay(14400)

Hosts == {"inbox", "localhost"}

(***************************************************************************)
(* Exceptions                                                              *)
(***************************************************************************)
NoExc == [cls |-> "none", tag |-> "none", host |-> "none"]

\* raise Exception('<kind> on ' + hostname)             lines 30, 33, 36
Tagged(kind, h) == [cls |-> "Exception", tag |-> kind, host |-> h]

\* an exception that no except clause of the body names
Plain(c) == [cls |-> c, tag |-> "none", host |-> "none"]

\* the three except clauses of open_ssh_connection
RecognizedKinds ==
    {"BadHostKeyException", "AuthenticationException", "SSHException"}

\* raised by the body but named by no except clause: a missing key file or
\* an unreachable host (OSError), and a BaseException of the interpreter
UnrecognizedClasses == {"OSError", "KeyboardInterrupt"}

\* the classes deriving from Exception
ExceptionClasses == {"Exception", "OSError"}

\* tenacity's RetryError(last_attempt)
RetryError(last) ==
    [cls |-> "RetryError", tag |-> last.tag, host |-> last.host, last_cls |-> last.cls]

\* an exception passed through to the caller unchanged
Same(e) == [cls |-> e.cls, tag |-> e.tag, host |-> e.host, last_cls |-> "none"]

NotRaised == [cls |-> "none", tag |-> "none", host |-> "none", last_cls |-> "none"]

(***************************************************************************)
(* tenacity policy of the decorator, line 18                               *)
(***************************************************************************)
\* retry_state.seconds_since_start, read when an attempt has ended
seconds_since_start == now - start_time

\* a policy retrying only the errors the body tags
RetryOnlyTagged(exc) == exc.cls = "Exception"

\* retry= is not given: the default retry_if_exception_type() retries on
\* every Exception, whatever the body's except clauses name
RetryPredicate(exc) == exc.cls \in ExceptionClasses

\* a stop condition that compares against the wait instead of the ceiling
StopTooEarly(elapsed) == elapsed >= WaitFixed

\* stop_after_delay(14400): seconds_since_start >= max_delay
Stop(elapsed) == elapsed >= StopAfterDelay

\* a decorator with reraise=True: the last exception is raised as it is
ReraiseLast(last) == Same(last)

\* reraise= is not given: the last attempt is wrapped in a RetryError
RetryExc(last) == RetryError(last)

(***************************************************************************)
(* open_ssh_connection                                                     *)
(***************************************************************************)
\* lines 22-26 succeed: the client is connected, line 27 logs it
BodyConnects(d) ==
    /\ ppc = "attempt"
    /\ now' = now + d
    /\ client' = "connected"
    /\ openConns' = openConns + 1
    /\ outcome' = NoExc
    /\ ppc' = "finally"
    /\ UNCHANGED <<start_time, hostname, raised>>
    /\ UNCHANGED <<tvars, nvars>>

\* lines 23-26 raise one of the three recognized exceptions; the matching
\* except clause logs it and raises the tagged Exception. The key load
\* (line 23) fails before any connection exists; connect (line 25) fails
\* with the transport already started.
BodyRecognized(d, kind, connected) ==
    /\ ppc = "attempt"
    /\ now' = now + d
    /\ client' = IF connected THEN "connected" ELSE "created"
    /\ openConns' = IF connected THEN openConns + 1 ELSE openConns
    /\ outcome' = Tagged(kind, hostname)
    /\ ppc' = "finally"
    /\ UNCHANGED <<start_time, hostname, raised>>
    /\ UNCHANGED <<tvars, nvars>>

\* lines 23-26 raise an exception no except clause names: it leaves the
\* body unchanged, before or after the transport was started
BodyUnrecognized(d, c, connected) ==
    /\ ppc = "attempt"
    /\ now' = now + d
    /\ client' = IF connected THEN "connected" ELSE "created"
    /\ openConns' = IF connected THEN openConns + 1 ELSE openConns
    /\ outcome' = Plain(c)
    /\ ppc' = "finally"
    /\ UNCHANGED <<start_time, hostname, raised>>
    /\ UNCHANGED <<tvars, nvars>>

\* a finally block that leaves the client open
FinallyNoClose ==
    /\ ppc = "finally"
    /\ ppc' = "decide"
    /\ UNCHANGED <<now, start_time, hostname, client, openConns, outcome,
                   raised>>
    /\ UNCHANGED <<tvars, nvars>>

\* finally: client.close()                                   lines 37-38
Finally ==
    /\ ppc = "finally"
    /\ client' = "closed"
    /\ openConns' = IF client = "connected" THEN openConns - 1 ELSE openConns
    /\ ppc' = "decide"
    /\ UNCHANGED <<now, start_time, hostname, outcome, raised>>
    /\ UNCHANGED <<tvars, nvars>>

\* tenacity: the attempt returned, the call returns
TenacityReturn ==
    /\ ppc = "decide"
    /\ outcome = NoExc
    /\ ppc' = "returned"
    /\ UNCHANGED <<now, start_time, hostname, client, openConns, outcome,
                   raised>>
    /\ UNCHANGED <<tvars, nvars>>

\* tenacity: the retry predicate rejects the exception, it is raised as is
TenacityPassThrough ==
    /\ ppc = "decide"
    /\ outcome # NoExc
    /\ ~RetryPredicate(outcome)
    /\ raised' = Same(outcome)
    /\ ppc' = "raised"
    /\ UNCHANGED <<now, start_time, hostname, client, openConns, outcome>>
    /\ UNCHANGED <<tvars, nvars>>

\* tenacity: the stop condition holds, RetryError is raised
TenacityStop ==
    /\ ppc = "decide"
    /\ outcome # NoExc
    /\ RetryPredicate(outcome)
    /\ Stop(seconds_since_start)
    /\ raised' = RetryExc(outcome)
    /\ ppc' = "raised"
    /\ UNCHANGED <<now, start_time, hostname, client, openConns, outcome>>
    /\ UNCHANGED <<tvars, nvars>>

\* tenacity: another attempt is scheduled
TenacityRetry ==
    /\ ppc = "decide"
    /\ outcome # NoExc
    /\ RetryPredicate(outcome)
    /\ ~Stop(seconds_since_start)
    /\ ppc' = "sleep"
    /\ UNCHANGED <<now, start_time, hostname, client, openConns, outcome,
                   raised>>
    /\ UNCHANGED <<tvars, nvars>>

\* tenacity: sleep(2), the outcome is reset and the body is called again
Sleep ==
    /\ ppc = "sleep"
    /\ now' = now + WaitFixed
    /\ outcome' = NoExc
    /\ ppc' = "attempt"
    /\ UNCHANGED <<start_time, hostname, client, openConns, raised>>
    /\ UNCHANGED <<tvars, nvars>>

\* a host on which every attempt fails with a recognized error
NextProbeRecognized ==
    \/ \E d \in 0..MaxAttemptTime, kind \in RecognizedKinds, c \in BOOLEAN :
            BodyRecognized(d, kind, c)
    \/ Finally
    \/ TenacityStop
    \/ TenacityRetry
    \/ Sleep

NextProbe ==
    \/ \E d \in 0..MaxAttemptTime : BodyConnects(d)
    \/ \E d \in 0..MaxAttemptTime, kind \in RecognizedKinds, c \in BOOLEAN :
            BodyRecognized(d, kind, c)
    \/ \E d \in 0..MaxAttemptTime, c \in UnrecognizedClasses, k \in BOOLEAN :
            BodyUnrecognized(d, c, k)
    \/ Finally
    \/ TenacityReturn
    \/ TenacityPassThrough
    \/ TenacityStop
    \/ TenacityRetry
    \/ Sleep

(***************************************************************************)
(* Paths: os.path.splitext, os.path.basename, os.path.expanduser           *)
(* A path is a sequence of one-character strings.                          *)
(***************************************************************************)
Chars == {"a", ".", "/", "~"}       \* characters of the source paths

MaxLen == 4                         \* longest source path

Suffix == <<".", "c", "4", "g", "a">>       \* '.c4ga'

Home == <<"/", "h">>                \* the HOME of the user running the harness

\* p.rfind(c), counted from 1; 0 when c does not occur
RFind(p, c) ==
    LET hits == {i \in 1..Len(p) : p[i] = c}
    IN  IF hits = {} THEN 0 ELSE CHOOSE i \in hits : \A j \in hits : j <= i

\* p.find('/', 1), counted from 1; Len(p) + 1 when there is none
FindSepAfterFirst(p) ==
    LET hits == {i \in 2..Len(p) : p[i] = "/"}
    IN  IF hits = {} THEN Len(p) + 1
        ELSE CHOOSE i \in hits : \A j \in hits : i <= j

\* os.path.splitext(p): the extension starts at the last dot of the last
\* component, unless only dots precede that dot in the component
SplitExt(p) ==
    LET sepIndex == RFind(p, "/")
        dotIndex == RFind(p, ".")
    IN  IF /\ dotIndex > sepIndex
           /\ \E k \in (sepIndex + 1)..(dotIndex - 1) : p[k] # "."
        THEN [root |-> SubSeq(p, 1, dotIndex - 1), ext |-> SubSeq(p, dotIndex, Len(p))]
        ELSE [root |-> p, ext |-> <<>>]

\* os.path.basename(p)
BaseName(p) == SubSeq(p, RFind(p, "/") + 1, Len(p))

\* os.path.expanduser(p): a leading '~' is replaced by HOME; '~name' is
\* looked up in the password database, which knows no user of these names
ExpandUser(p) ==
    IF Len(p) = 0 \/ p[1] # "~" THEN p
    ELSE LET i == FindSepAfterFirst(p)
         IN  IF i = 2 THEN Home \o SubSeq(p, i, Len(p)) ELSE p

\* filename, _ = os.path.splitext(file_path)
\* output_base = os.path.basename(filename); f'{output_base}.c4ga'
\*                                   lines 50-53, 74-76, 109-112, 128-130
RemoteName(p) == BaseName(SplitExt(p).root) \o Suffix

(***************************************************************************)
(* Transfer calls                                                          *)
(***************************************************************************)
\* the paths the transfer scenarios use: a source, its artifact, another
\* source in a directory
TransferPaths ==
    { <<"a", ".", "t">>, <<"a">> \o Suffix, <<"d", "/", "b">> }

SftpOps == {"sftp_upload", "sftp_remove"}
S3Ops == {"s3_upload", "s3_remove"}
UploadOps == {"sftp_upload", "s3_upload"}
RemoveOps == {"sftp_remove", "s3_remove"}

Backend(o) == IF o \in SftpOps THEN "SFTP" ELSE "S3"

\* failures the environment may produce at a step: an unreadable key, an
\* unreachable or refusing host, a failing remote operation, a bad endpoint
InjectedFaults ==
    {"KeyLoadError", "SocketError", "AuthenticationException", "SSHException",
     "PutError", "RemoveError", "EndpointError", "S3UploadFailedError"}

NoChain == [stage |-> 0, backend |-> "none", name |-> <<>>,
            r1 |-> "none", absent1 |-> FALSE, r2 |-> "none"]

\* the upload, remove, remove sequence on one backend and one name, followed
\* across consecutive calls in which the environment injects no fault
ChainAfter(c, o, n, res, first, present) ==
    IF o \in UploadOps
    THEN IF res = "ok"
         THEN [NoChain EXCEPT !.stage = 1, !.backend = Backend(o), !.name = n]
         ELSE NoChain
    ELSE IF first \in InjectedFaults \/ c.backend # Backend(o) \/ c.name # n
         THEN NoChain
         ELSE IF c.stage = 1
              THEN [c EXCEPT !.stage = 2, !.r1 = res, !.absent1 = ~present]
              ELSE IF c.stage = 2
                   THEN [c EXCEPT !.stage = 3, !.r2 = res]
                   ELSE NoChain

\* the caller calls one of the four functions; its locals are unbound
Call(o, p) ==
    /\ tpc \in {"idle", "done"}
    /\ op' = o
    /\ file_path' = p
    /\ transport' = "unbound"
    /\ pending' = "none"
    /\ orig' = "none"
    /\ result' = "running"
    /\ remoteLog' = <<>>
    /\ passLog' = 0
    /\ tpc' = IF o \in SftpOps THEN "key" ELSE "client"
    /\ UNCHANGED <<sftpFiles, s3Objects, localFiles, chain>>
    /\ UNCHANGED <<pvars, nvars>>

\* an exception raised inside the try block of the SFTP functions
Throw(e) ==
    /\ pending' = e
    /\ orig' = e
    /\ tpc' = "except"

\* k = paramiko.RSAKey.from_private_key_file(...)            lines 44, 68
SftpLoadKey(ok) ==
    /\ tpc = "key"
    /\ IF ok THEN tpc' = "transport" /\ UNCHANGED <<pending, orig>>
             ELSE Throw("KeyLoadError")
    /\ UNCHANGED <<op, file_path, transport, result, remoteLog, passLog,
                   sftpFiles, s3Objects, localFiles, chain>>
    /\ UNCHANGED <<pvars, nvars>>

\* transport = paramiko.Transport((hostname, port)): the constructor opens
\* the socket; transport is bound only when it returns      lines 45, 69
SftpTransport(ok) ==
    /\ tpc = "transport"
    /\ remoteLog' = Append(remoteLog, "open")
    /\ IF ok THEN /\ transport' = "open"
                  /\ tpc' = "connect"
                  /\ UNCHANGED <<pending, orig>>
             ELSE /\ Throw("SocketError")
                  /\ UNCHANGED transport
    /\ UNCHANGED <<op, file_path, result, passLog, sftpFiles, s3Objects,
                   localFiles, chain>>
    /\ UNCHANGED <<pvars, nvars>>

\* transport.connect(username=user, pkey=k)                  lines 46, 70
SftpConnect(ok) ==
    /\ tpc = "connect"
    /\ remoteLog' = Append(remoteLog, "auth")
    /\ IF ok THEN tpc' = "channel" /\ UNCHANGED <<pending, orig>>
             ELSE Throw("AuthenticationException")
    /\ UNCHANGED <<op, file_path, transport, result, passLog, sftpFiles,
                   s3Objects, localFiles, chain>>
    /\ UNCHANGED <<pvars, nvars>>

\* transport.set_keepalive(60); sftp = SFTPClient.from_transport(transport)
\*                                                           lines 47-49, 71-73
SftpChannel(ok) ==
    /\ tpc = "channel"
    /\ remoteLog' = Append(remoteLog, "channel")
    /\ IF ok THEN tpc' = "xfer" /\ UNCHANGED <<pending, orig>>
             ELSE Throw("SSHException")
    /\ UNCHANGED <<op, file_path, transport, result, passLog, sftpFiles,
                   s3Objects, localFiles, chain>>
    /\ UNCHANGED <<pvars, nvars>>

\* an upload that puts without looking at the local file
SftpPutUnchecked(ok) ==
    /\ tpc = "xfer"
    /\ op = "sftp_upload"
    /\ remoteLog' = Append(remoteLog, "put")
    /\ IF ok THEN /\ sftpFiles' = sftpFiles \cup {RemoteName(file_path)}
                  /\ tpc' = "log"
                  /\ UNCHANGED <<pending, orig>>
             ELSE /\ Throw("PutError")
                  /\ UNCHANGED sftpFiles
    /\ UNCHANGED <<op, file_path, transport, result, passLog, s3Objects,
                   localFiles, chain>>
    /\ UNCHANGED <<pvars, nvars>>

\* if os.path.isfile(file_path): sftp.put(file_path, f'{output_base}.c4ga')
\* else: raise IOError(...)                                  lines 50-55
SftpPut(ok) ==
    /\ tpc = "xfer"
    /\ op = "sftp_upload"
    /\ IF file_path \in localFiles
       THEN /\ remoteLog' = Append(remoteLog, "put")
            /\ IF ok THEN /\ sftpFiles' = sftpFiles \cup {RemoteName(file_path)}
                          /\ tpc' = "log"
                          /\ UNCHANGED <<pending, orig>>
                     ELSE /\ Throw("PutError")
                          /\ UNCHANGED sftpFiles
       ELSE /\ Throw("LocalFileMissing")
            /\ UNCHANGED <<remoteLog, sftpFiles>>
    /\ UNCHANGED <<op, file_path, transport, result, passLog, s3Objects,
                   localFiles, chain>>
    /\ UNCHANGED <<pvars, nvars>>

\* sftp.remove(f'{output_base}.c4ga'): the server refuses a missing file
\*                                                           lines 74-76
SftpRemoveFile(ok) ==
    /\ tpc = "xfer"
    /\ op = "sftp_remove"
    /\ remoteLog' = Append(remoteLog, "remove")
    /\ IF RemoteName(file_path) \in sftpFiles
       THEN IF ok THEN /\ sftpFiles' = sftpFiles \ {RemoteName(file_path)}
                       /\ tpc' = "log"
                       /\ UNCHANGED <<pending, orig>>
                  ELSE /\ Throw("RemoveError")
                       /\ UNCHANGED sftpFiles
       ELSE /\ Throw("NoSuchFile")
            /\ UNCHANGED sftpFiles
    /\ UNCHANGED <<op, file_path, transport, result, passLog, s3Objects,
                   localFiles, chain>>
    /\ UNCHANGED <<pvars, nvars>>

\* LOG.info(f'file uploaded {output_base}.c4ga | PASS |')    line 56
\* LOG.info(f'Clean up: file removed {output_base}.c4ga')    line 77
SftpLog ==
    /\ tpc = "log"
    /\ passLog' = IF op = "sftp_upload" THEN passLog + 1 ELSE passLog
    /\ tpc' = "finally"
    /\ UNCHANGED <<op, file_path, transport, pending, orig, result, remoteLog,
                   sftpFiles, s3Objects, localFiles, chain>>
    /\ UNCHANGED <<pvars, nvars>>

\* an except block that also logs the upload as passed
SftpExceptLogsPass ==
    /\ tpc = "except"
    /\ passLog' = passLog + 1
    /\ tpc' = "finally"
    /\ UNCHANGED <<op, file_path, transport, pending, orig, result, remoteLog,
                   sftpFiles, s3Objects, localFiles, chain>>
    /\ UNCHANGED <<pvars, nvars>>

\* except Exception as e: LOG.error(...); raise e            lines 57-59, 78-80
SftpExcept ==
    /\ tpc = "except"
    /\ tpc' = "finally"
    /\ UNCHANGED <<op, file_path, transport, pending, orig, result, remoteLog,
                   passLog, sftpFiles, s3Objects, localFiles, chain>>
    /\ UNCHANGED <<pvars, nvars>>

\* finally: LOG.debug('sftp done'); transport.close()        lines 60-62, 81-83
\* With transport unbound the name lookup raises UnboundLocalError, which
\* replaces the exception in flight.
SftpFinally ==
    /\ tpc = "finally"
    /\ LET exc == IF transport = "unbound" THEN "UnboundLocalError" ELSE pending
           res == IF exc = "none" THEN "ok" ELSE exc
       IN  /\ pending' = exc
           /\ result' = res
           /\ chain' = ChainAfter(chain, op, RemoteName(file_path), res, orig,
                                  RemoteName(file_path) \in sftpFiles)
    /\ transport' = IF transport = "unbound" THEN "unbound" ELSE "closed"
    /\ tpc' = "done"
    /\ UNCHANGED <<op, file_path, orig, remoteLog, passLog, sftpFiles,
                   s3Objects, localFiles>>
    /\ UNCHANGED <<pvars, nvars>>

\* an S3 function ends: there is no try block, the exception leaves the call
S3End(e, objects) ==
    /\ pending' = e
    /\ orig' = e
    /\ result' = IF e = "none" THEN "ok" ELSE e
    /\ chain' = ChainAfter(chain, op, RemoteName(file_path),
                           IF e = "none" THEN "ok" ELSE e, e,
                           RemoteName(file_path) \in objects)
    /\ tpc' = "done"

\* s3 = boto3.client('s3', ...) / boto3.resource('s3', ...): no request is
\* sent; a malformed endpoint raises                     lines 99-105, 120-126
S3Client(ok) ==
    /\ tpc = "client"
    /\ IF ok THEN /\ tpc' = "xfer"
                  /\ UNCHANGED <<pending, orig, result, chain>>
             ELSE S3End("EndpointError", s3Objects)
    /\ UNCHANGED <<op, file_path, transport, remoteLog, passLog, sftpFiles,
                   s3Objects, localFiles>>
    /\ UNCHANGED <<pvars, nvars>>

\* if os.path.isfile(file_path): s3.upload_file(...) else: raise IOError(...)
\*                                                           lines 109-114
S3Upload(ok) ==
    /\ tpc = "xfer"
    /\ op = "s3_upload"
    /\ IF file_path \in localFiles
       THEN /\ remoteLog' = Append(remoteLog, "put")
            /\ IF ok THEN /\ s3Objects' = s3Objects \cup {RemoteName(file_path)}
                          /\ tpc' = "log"
                          /\ UNCHANGED <<pending, orig, result, chain>>
                     ELSE /\ S3End("S3UploadFailedError", s3Objects)
                          /\ UNCHANGED s3Objects
       ELSE /\ S3End("LocalFileMissing", s3Objects)
            /\ UNCHANGED <<remoteLog, s3Objects>>
    /\ UNCHANGED <<op, file_path, transport, passLog, sftpFiles, localFiles>>
    /\ UNCHANGED <<pvars, nvars>>

\* LOG.info(f'file uploaded {file_path} | PASS |')           line 115
S3Log ==
    /\ tpc = "log"
    /\ op = "s3_upload"
    /\ passLog' = passLog + 1
    /\ S3End("none", s3Objects)
    /\ UNCHANGED <<op, file_path, transport, remoteLog, sftpFiles, s3Objects,
                   localFiles>>
    /\ UNCHANGED <<pvars, nvars>>

\* my_bucket = s3.Bucket(bucket_name); my_bucket.delete_key(...): the boto3
\* Bucket resource has no attribute delete_key, the lookup raises
\* AttributeError before any request is made                lines 127-130
S3Remove ==
    /\ tpc = "xfer"
    /\ op = "s3_remove"
    /\ S3End("AttributeError", s3Objects)
    /\ UNCHANGED <<op, file_path, transport, remoteLog, passLog, sftpFiles,
                   s3Objects, localFiles>>
    /\ UNCHANGED <<pvars, nvars>>

NextTransfer ==
    \/ \E o \in SftpOps \cup S3Ops, p \in TransferPaths : Call(o, p)
    \/ \E ok \in BOOLEAN : SftpLoadKey(ok)
    \/ \E ok \in BOOLEAN : SftpTransport(ok)
    \/ \E ok \in BOOLEAN : SftpConnect(ok)
    \/ \E ok \in BOOLEAN : SftpChannel(ok)
    \/ \E ok \in BOOLEAN : SftpPut(ok)
    \/ \E ok \in BOOLEAN : SftpRemoveFile(ok)
    \/ SftpLog
    \/ SftpExcept
    \/ SftpFinally
    \/ \E ok \in BOOLEAN : S3Client(ok)
    \/ \E ok \in BOOLEAN : S3Upload(ok)
    \/ S3Log
    \/ S3Remove

(***************************************************************************)
(* encrypt_file and the names derived from its argument and its result     *)
(***************************************************************************)
\* all paths of at most n characters
PathsUpTo(n) == UNION {[1..k -> Chars] : k \in 1..n}

\* paths that can name a regular file: the last component is a name
SourcePaths ==
    {p \in PathsUpTo(MaxLen) : BaseName(p) \notin {<<>>, <<".">>, <<".", ".">>}}

\* filename, _ = os.path.splitext(file_path)                 line 135
\* output_file = os.path.expanduser(f'{filename}.c4ga')      line 136
\* encrypt(keys, infile, open(f'{filename}.c4ga', 'wb'), ...)  line 148
\* return output_file                                        line 153
\* The output is opened before encrypt runs: it exists, possibly partial,
\* when encrypt raises (lines 150-152).
EncryptFile(ok) ==
    /\ npc = "start"
    /\ outWritten' = SplitExt(srcPath).root \o Suffix
    /\ outReturned' = IF ok THEN ExpandUser(SplitExt(srcPath).root \o Suffix)
                            ELSE <<>>
    /\ npc' = IF ok THEN "encrypted" ELSE "failed"
    /\ UNCHANGED <<srcPath, nameFromSrc, nameFromOut, usedBy>>
    /\ UNCHANGED <<pvars, tvars>>

\* a transfer function derives the remote name, once from the source path
\* and once from the path encrypt_file returned
DeriveNames(fn) ==
    /\ npc = "encrypted"
    /\ nameFromSrc' = RemoteName(srcPath)
    /\ nameFromOut' = RemoteName(outReturned)
    /\ usedBy' = fn
    /\ npc' = "named"
    /\ UNCHANGED <<srcPath, outWritten, outReturned>>
    /\ UNCHANGED <<pvars, tvars>>

NextName ==
    \/ \E ok \in BOOLEAN : EncryptFile(ok)
    \/ \E fn \in SftpOps \cup S3Ops : DeriveNames(fn)

(***************************************************************************)
(* Specifications                                                          *)
(***************************************************************************)
\* open_ssh_connection is called on one of the hosts; no transfer call and
\* no naming scenario is in progress
InitProbe ==
    /\ ppc = "attempt"
    /\ now = 0
    /\ start_time = 0
    /\ hostname \in Hosts
    /\ client = "none"
    /\ openConns = 0
    /\ outcome = NoExc
    /\ raised = NotRaised
    /\ tpc = "off"
    /\ op = "none"
    /\ file_path = <<>>
    /\ transport = "unbound"
    /\ pending = "none"
    /\ orig = "none"
    /\ result = "none"
    /\ remoteLog = <<>>
    /\ passLog = 0
    /\ sftpFiles = {}
    /\ s3Objects = {}
    /\ localFiles = {}
    /\ chain = NoChain
    /\ npc = "off"
    /\ srcPath = <<>>
    /\ outWritten = <<>>
    /\ outReturned = <<>>
    /\ nameFromSrc = <<>>
    /\ nameFromOut = <<>>
    /\ usedBy = "none"

\* the same call, followed on one host
InitProbeOneHost ==
    /\ ppc = "attempt"
    /\ now = 0
    /\ start_time = 0
    /\ hostname = "inbox"
    /\ client = "none"
    /\ openConns = 0
    /\ outcome = NoExc
    /\ raised = NotRaised
    /\ tpc = "off"
    /\ op = "none"
    /\ file_path = <<>>
    /\ transport = "unbound"
    /\ pending = "none"
    /\ orig = "none"
    /\ result = "none"
    /\ remoteLog = <<>>
    /\ passLog = 0
    /\ sftpFiles = {}
    /\ s3Objects = {}
    /\ localFiles = {}
    /\ chain = NoChain
    /\ npc = "off"
    /\ srcPath = <<>>
    /\ outWritten = <<>>
    /\ outReturned = <<>>
    /\ nameFromSrc = <<>>
    /\ nameFromOut = <<>>
    /\ usedBy = "none"

\* a caller about to issue transfer calls: both remote stores are empty,
\* any of the paths may exist locally
InitTransfer ==
    /\ ppc = "idle"
    /\ now = 0
    /\ start_time = 0
    /\ hostname = "none"
    /\ client = "none"
    /\ openConns = 0
    /\ outcome = NoExc
    /\ raised = NotRaised
    /\ tpc = "idle"
    /\ op = "none"
    /\ file_path = <<>>
    /\ transport = "unbound"
    /\ pending = "none"
    /\ orig = "none"
    /\ result = "none"
    /\ remoteLog = <<>>
    /\ passLog = 0
    /\ sftpFiles = {}
    /\ s3Objects = {}
    /\ localFiles \in SUBSET TransferPaths
    /\ chain = NoChain
    /\ npc = "off"
    /\ srcPath = <<>>
    /\ outWritten = <<>>
    /\ outReturned = <<>>
    /\ nameFromSrc = <<>>
    /\ nameFromOut = <<>>
    /\ usedBy = "none"

\* encrypt_file is about to be called on a source path
InitName ==
    /\ ppc = "idle"
    /\ now = 0
    /\ start_time = 0
    /\ hostname = "none"
    /\ client = "none"
    /\ openConns = 0
    /\ outcome = NoExc
    /\ raised = NotRaised
    /\ tpc = "off"
    /\ op = "none"
    /\ file_path = <<>>
    /\ transport = "unbound"
    /\ pending = "none"
    /\ orig = "none"
    /\ result = "none"
    /\ remoteLog = <<>>
    /\ passLog = 0
    /\ sftpFiles = {}
    /\ s3Objects = {}
    /\ localFiles = {}
    /\ chain = NoChain
    /\ npc = "start"
    /\ srcPath \in SourcePaths
    /\ outWritten = <<>>
    /\ outReturned = <<>>
    /\ nameFromSrc = <<>>
    /\ nameFromOut = <<>>
    /\ usedBy = "none"

\* one call of open_ssh_connection
SpecProbe == InitProbe /\ [][NextProbe]_vars

\* one call against a host on which every attempt fails with a recognized
\* error
SpecProbeRecognized == InitProbe /\ [][NextProbeRecognized]_vars

\* the call is synchronous and blocking: it always takes its next step.
\* Termination does not read the hostname, one host is followed.
FairSpecProbe == InitProbeOneHost /\ [][NextProbe]_vars /\ WF_vars(NextProbe)

\* a caller issuing transfer calls one after the other
SpecTransfer == InitTransfer /\ [][NextTransfer]_vars

\* encrypt_file on a source path, then a transfer function on both paths
SpecName == InitName /\ [][NextName]_vars

(***************************************************************************)
(* Claims                                                                  *)
(***************************************************************************)
\* C1, as stated: an attempt that fails with an unrecognized error is not
\* retried - tenacity waits for another attempt only after one of the three
\* tagged errors.
C1_UnrecognizedPropagates ==
    ppc = "sleep" => outcome.cls = "Exception" /\ outcome.tag \in RecognizedKinds

\* C1, amended: every attempt that fails with an exception deriving from
\* Exception, recognized or not, is retried while the ceiling has not
\* elapsed: such a failure reaches the caller only as the RetryError raised
\* at the ceiling. Only an exception outside Exception (KeyboardInterrupt)
\* reaches the caller at once and unchanged.
C1_EveryExceptionRetried ==
    /\ ppc = "sleep" => outcome.cls \in ExceptionClasses
    /\ (ppc = "raised" /\ outcome.cls \in ExceptionClasses)
          => raised.cls = "RetryError" /\ seconds_since_start >= StopAfterDelay
    /\ (ppc = "raised" /\ raised.cls # "RetryError")
          => outcome.cls = "KeyboardInterrupt" /\ raised = Same(outcome)

\* C1 witness: a retry is pending after an unrecognized error
C1_Witness == ppc = "sleep" /\ outcome.cls = "OSError"

\* C2, as stated: when every attempt failed with a recognized error, the
\* error delivered to the caller is the tagged error of the last attempt.
C2_TaggedErrorDelivered ==
    ppc = "raised"
       => /\ raised.cls = "Exception"
          /\ raised.tag = outcome.tag
          /\ raised.tag \in RecognizedKinds
          /\ raised.host = hostname

\* C2, amended: when every attempt failed with a recognized error, the
\* caller receives a RetryError raised once the ceiling has elapsed; the
\* tagged error of the last attempt (failure kind and hostname) is the
\* attempt it wraps, not the error raised.
C2_RetryErrorWrapsTagged ==
    ppc = "raised"
       => /\ raised.cls = "RetryError"
          /\ raised.last_cls = "Exception"
          /\ raised.tag = outcome.tag
          /\ raised.tag \in RecognizedKinds
          /\ raised.host = hostname
          /\ seconds_since_start >= StopAfterDelay

\* C2 witness: the call gave up on localhost after an authentication failure
C2_Witness ==
    /\ ppc = "raised"
    /\ hostname = "localhost"
    /\ outcome = Tagged("AuthenticationException", "localhost")

\* C3, as stated (timing): an attempt starts only while the elapsed time is
\* below the ceiling, and the call gives up only once the ceiling elapsed.
C3_AttemptsStartBelowCeiling ==
    /\ ppc = "attempt" => seconds_since_start < StopAfterDelay
    /\ (ppc = "raised" /\ raised.cls = "RetryError") => seconds_since_start >= StopAfterDelay

\* C3, amended: the call always terminates; every attempt after the first
\* follows a 2-second wait; another attempt is scheduled only while the
\* elapsed time measured when the previous attempt failed is below the
\* ceiling, so the attempt itself starts less than 2 seconds past the
\* ceiling at the latest; the call gives up only once the ceiling elapsed.
C3_BoundedRetry ==
    /\ [](ppc = "sleep" => seconds_since_start < StopAfterDelay)
    /\ [](ppc = "attempt" => seconds_since_start < StopAfterDelay + WaitFixed)
    /\ []((ppc = "raised" /\ raised.cls = "RetryError") => seconds_since_start >= StopAfterDelay)
    /\ [][ppc' = "attempt" => (ppc = "sleep" /\ now' = now + WaitFixed)]_vars
    /\ <>(ppc \in {"returned", "raised"})

\* C3 witness: an attempt starts when the ceiling has already elapsed
C3_Witness == ppc = "attempt" /\ seconds_since_start >= StopAfterDelay

\* C4, as stated, in the executions where the environment injects no fault:
\* an upload of a missing local file ends with the local-file-missing error
\* and has issued no remote operation.
C4_NoRemoteCall ==
    (tpc = "done" /\ op \in UploadOps /\ file_path \notin localFiles
        /\ orig \notin InjectedFaults)
       => result = "LocalFileMissing" /\ remoteLog = <<>>

\* C4, amended: an upload of a missing local file fails and never issues a
\* put. s3_upload issues no remote operation at all and raises the
\* local-file-missing error unless the client construction failed.
\* sftp_upload looks at the file only after it opened the transport,
\* authenticated and opened the SFTP channel, and raises the
\* local-file-missing error when those steps succeeded.
C4_NoPutWhenMissing ==
    (tpc = "done" /\ op \in UploadOps /\ file_path \notin localFiles)
       => /\ result # "ok"
          /\ \A i \in 1..Len(remoteLog) : remoteLog[i] # "put"
          /\ op = "s3_upload"
                => remoteLog = <<>> /\ result \in {"LocalFileMissing", "EndpointError"}
          /\ (op = "sftp_upload" /\ orig \notin InjectedFaults)
                => /\ result = "LocalFileMissing"
                   /\ remoteLog = <<"open", "auth", "channel">>

\* C4 witness: sftp_upload ended with the local-file-missing error
C4_Witness ==
    /\ tpc = "done"
    /\ op = "sftp_upload"
    /\ file_path \notin localFiles
    /\ result = "LocalFileMissing"

\* C5, as stated: when sftp_upload or sftp_remove ends, no transport of the
\* call is open and the cleanup step has not failed for want of a transport.
C5_TransportClosed ==
    (tpc = "done" /\ op \in SftpOps)
       => transport # "open" /\ result # "UnboundLocalError"

\* C6: at most one connection is open at any time, and none is open when an
\* attempt starts, when the body has been left, or when the call ended.
C6_ClientClosed ==
    /\ openConns <= 1
    /\ ppc \in {"attempt", "decide", "sleep", "returned", "raised"}
          => openConns = 0 /\ client \in {"none", "closed"}

\* C6 witness: a retry is pending after a failed attempt whose client is
\* closed
C6_Witness ==
    /\ ppc = "sleep"
    /\ client = "closed"
    /\ outcome.tag = "AuthenticationException"

\* C7, as stated: in upload, remove, remove on one backend and one name the
\* first remove succeeds and leaves the object absent, the second fails.
C7_RemoveNotIdempotent ==
    /\ chain.stage >= 2 => chain.r1 = "ok" /\ chain.absent1
    /\ chain.stage = 3 => chain.r2 # "ok"

C9_OneArtifactName ==
    LET artifact == SplitExt(BaseName(srcPath)).root \o Suffix
    IN  /\ npc \in {"encrypted", "named"}
              => /\ BaseName(outWritten) = artifact
                 /\ outReturned = outWritten
        /\ npc = "named"
              => /\ nameFromSrc = artifact
                 /\ nameFromOut = artifact

\* C10, as stated: when a step of a transfer call fails, the error that
\* reaches the caller is that failure, and no remote operation was issued
\* twice.
C10_OriginalCause ==
    (tpc = "done" /\ orig # "none")
       => /\ result = orig
          /\ \A i, j \in 1..Len(remoteLog) : remoteLog[i] = remoteLog[j] => i = j

=============================================================================
